---- MODULE Spec2Model ----
(***************************************************************************)
(* Family situation sharing board: the server's change-distribution layer  *)
(* (server.js: store + legacy mirror file, fs.watch debounce, SSE          *)
(* subscriber registry, broadcast, heartbeat) and the browser's            *)
(* reconnection controller (app.js).                                       *)
(***************************************************************************)
EXTENDS Integers, Sequences, FiniteSets, TLC

\* ------------------------------------------------------------------ bounds
MaxConns == 2          \* stream connections ever accepted
MaxClock == 1          \* status writes (each POST reads a later clock value)
MaxEvents == 2         \* fs.watch notifications queued (the OS coalesces more)
MaxFetch == 3          \* pull requests of the client in flight
MaxArg == 2            \* how far query parameters go past 0 and past the cap
MaxId == 3             \* member ids handed out before the last restart

\* ------------------------------------------------------- program constants
RECONNECT_INTERVAL == 3000
MAX_RECONNECT_ATTEMPTS == 10
RECONNECT_CAP == 30000
DEFAULT_LIMIT == 100
LIMIT_CAP == 1000
DEFAULT_INTERVAL == 5
MIN_INTERVAL == 1
MAX_INTERVAL == 300

\* ------------------------------------------------------------- value sets
Names == {"A", "B"}
\* The request bodies of POST /api/status that are tried: name, activity, state.
Requests == {<<"A", "home", "">>, <<"A", "", "busy">>, <<"B", "home", "busy">>,
             <<"", "home", "">>}
\* The requests only the specification of the store tries.
Rare == {<<"A", "", "busy">>, <<"", "home", "">>}
Conns == 1..MaxConns
\* lastData of a connection that has been written no data frame yet.
NoFrame == <<[none |-> TRUE]>>

VARIABLES
    \* store (db/database.js) and legacy mirror file
    db,            \* rows of table members, in getAllMembers() order
    nextId,        \* next AUTOINCREMENT id of table members
    history,       \* rows of table status_history, in insertion order
    storeUp,       \* FALSE: calls into db throw (db is null, or the store fails)
    mirror,        \* members array held by family-status.json
    fileReadable,  \* FALSE: readData() cannot read or parse the file
    clock,         \* the value new Date() returns next
    \* change source
    fsEvents,      \* fs.watch notifications not yet delivered
    watchTimeout,  \* the handle variable: "null", "live" or "fired"
    liveTimers,    \* debounce timeouts scheduled and neither fired nor cleared
    burst,         \* signals received since the last cycle: "none", "one" or
                   \* "many" (history variable)
    lastCycle,     \* where the last cycle read the state from: "store",
                   \* "mirror", "empty", or "none" before the first cycle
                   \* (history variable)
    \* subscriber registry and connections
    sseClients,    \* the array sseClients, as connection ids
    phase,         \* per connection: "idle", "accepted", "streaming", "failed", "closed"
    chan,          \* per connection: res is "ok", "ended" (writableEnded) or "throws"
    abort,         \* per connection: the peer left before the handler ran
    lastData,      \* per connection: payload of the last data frame written
    hbFailed,      \* per connection: a keep-alive pass found its channel ended
                   \* or throwing (history variable)
    \* browser (app.js)
    eventSource,        \* "null", "connecting", "open" or "closed"
    reconnectTimer,     \* 0 (null) or the delay of the pending timeout, ms
    reconnectAttempts,
    useSSE,
    pollingTimer,       \* TRUE: the setInterval of startPolling is set
    fetching,           \* fetchStatus calls awaiting their response
    unloaded,           \* the beforeunload handler has run
    openSources,        \* EventSource objects created and not closed
    pendingTimers,      \* reconnect timeouts set and neither fired nor cleared
    lastStatusHash,     \* NullHash or the fingerprint of the last snapshot applied
    currentMembers,     \* the members displayed
    notificationPermission,  \* "default", "granted" or "denied"
    notices,            \* names notified while the last frame or pull response
                        \* was handled (history variable)
    lastFrame,          \* kind of the last stream frame handled (history variable)
    pollingInterval,    \* seconds
    savedInterval,      \* localStorage item pollingInterval: <<>> when absent
    pollingDelay,       \* delay in ms of the running setInterval, 0 when none
    lastSave,           \* what the last saveSettings did: "none", "rejected" or
                        \* "saved" (history variable)
    responses,          \* bodies of the responses to the client's pulls that the
                        \* server has sent and the client has not received yet
    errors,             \* onerror calls since the last onopen, or since init()
                        \* (history variable)
    connects,           \* EventSource objects created since the last onopen, or
                        \* since init() (history variable)
    delivery,           \* the last snapshot applied: its members, and whether
                        \* it was the first one after a stream error (history
                        \* variable)
    fresh,              \* a stream error has happened since the last snapshot
                        \* was applied (history variable)
    \* responses
    response,           \* status of the last POST, DELETE or GET answered: "none",
                        \* "200", "400", "404" or "500" (history variable)
    request,            \* method, name and body fields of the last request
                        \* handled (history variable)
    body,               \* members answered by the last GET /api/status
    query               \* <<>> or the options of the last history query handed
                        \* to the store, with the number of rows it returned

storeVars == <<db, nextId, history, storeUp, mirror, fileReadable, clock, response,
               request, body, query>>
sourceVars == <<fsEvents, watchTimeout, liveTimers, burst, lastCycle>>
connVars == <<phase, chan, abort>>
regVars == <<sseClients, lastData, hbFailed>>
serverVars == <<storeVars, sourceVars, connVars, regVars>>
controlVars == <<eventSource, reconnectTimer, reconnectAttempts, useSSE,
                 pollingTimer, fetching, unloaded, openSources, pendingTimers>>
viewVars == <<lastStatusHash, currentMembers, notificationPermission, notices,
              lastFrame>>
settingsVars == <<pollingInterval, savedInterval, pollingDelay, lastSave>>
traceVars == <<errors, connects, delivery, fresh>>
clientVars == <<controlVars, viewVars, settingsVars, responses, traceVars>>
vars == <<serverVars, clientVars>>

\* ---------------------------------------------------------------- helpers
Min(a, b) == IF a < b THEN a ELSE b

\* Array.prototype.findIndex(m => m.name === name): 1-based, 0 when absent.
RECURSIVE findIndexFrom(_, _, _)
findIndexFrom(s, name, i) ==
    IF i > Len(s) THEN 0
    ELSE IF s[i].name = name THEN i
    ELSE findIndexFrom(s, name, i + 1)
findIndex(s, name) == findIndexFrom(s, name, 1)

\* Array.prototype.filter(m => m.name !== name)
filterName(s, name) == SelectSeq(s, LAMBDA m : m.name # name)

\* Array.prototype.splice(index, 1) with a 1-based index.
splice(s, i) == SubSeq(s, 1, i - 1) \o SubSeq(s, i + 1, Len(s))

\* a || b of JavaScript on strings
Or(a, b) == IF a # "" THEN a ELSE b

\* ------------------------------------------------------------------ store
\* What a stream frame or a response carries of a row of table members.
Member(row) ==
    [name |-> row.name, activity |-> row.activity, state |-> row.state,
     timestamp |-> row.timestamp]

\* db.getAllMembers(): SELECT * FROM members ORDER BY updated_at DESC. The
\* sequence db is kept in that order (the row written last comes first).
getAllMembers(d) == [i \in 1..Len(d) |-> Member(d[i])]

\* db.insertOrUpdateMember: UPDATE of the row of that name, or INSERT.
insertOrUpdateMember(d, id, name, activity, state, timestamp) ==
    LET i == findIndex(d, name)
        row == [id |-> IF i > 0 THEN d[i].id ELSE id, name |-> name,
                activity |-> activity, state |-> state, timestamp |-> timestamp]
    IN  <<row>> \o filterName(d, name)

\* db.insertHistory: one appended row.
insertHistory(h, memberId, activity, state, changedAt) ==
    Append(h, [member_id |-> memberId, activity |-> activity, state |-> state,
               changed_at |-> changedAt])

\* db.deleteMember: DELETE FROM members WHERE name = ?
deleteMember(d, name) == filterName(d, name)

\* FOREIGN KEY (member_id) REFERENCES members(id) ON DELETE CASCADE
cascade(h, d) == SelectSeq(h, LAMBDA r : \E i \in 1..Len(d) : d[i].id = r.member_id)

\* readData(): the file's members, { members: [] } when it cannot be read.
readData == IF fileReadable THEN mirror ELSE <<>>

\* The update both branches of POST /api/status apply to the mirror's array.
mergeMirror(data, name, activity, state, timestamp) ==
    LET i == findIndex(data, name)
    IN  IF i > 0
        THEN [data EXCEPT ![i] = [name |-> name,
                                  activity |-> Or(activity, data[i].activity),
                                  state |-> Or(state, data[i].state),
                                  timestamp |-> timestamp]]
        ELSE Append(data, [name |-> name, activity |-> activity, state |-> state,
                           timestamp |-> timestamp])

\* writeData(data): writeFileSync replaces the file (and the watcher is
\* notified), or throws and writeData returns false.
writeData(data, ok) ==
    IF ok
    THEN /\ mirror' = data
         /\ fileReadable' = TRUE
         /\ fsEvents' = Min(fsEvents + 1, MaxEvents)
    ELSE UNCHANGED <<mirror, fileReadable, fsEvents>>


\* req.method with req.params.name or the fields of req.body ('' for a field
\* that is absent).
req(op, name, activity, state) ==
    [op |-> op, name |-> name, activity |-> activity, state |-> state]

\* if (!name): the request body holds a name.
hasNameAlways(name) == TRUE
hasName(name) == name # ""

\* app.post('/api/status'). A request without a name is answered 400; the
\* fallback branch answers 500 when the mirror cannot be written; every
\* other request is answered with success. historyOk is FALSE when
\* db.insertHistory throws after db.insertOrUpdateMember has committed its
\* transaction: the handler then continues in its fallback branch.
PostStatus(name, activity, state, historyOk, writeOk) ==
    /\ clock < MaxClock
    /\ request' = req("POST", name, activity, state)
    /\ response' = IF ~hasName(name) THEN "400"
                   ELSE IF (storeUp /\ historyOk) \/ writeOk THEN "200" ELSE "500"
    /\ IF ~hasName(name)
       THEN UNCHANGED <<db, nextId, history, mirror, fileReadable, fsEvents, clock>>
       ELSE /\ clock' = clock + 1
            /\ LET data == mergeMirror(readData, name, activity, state, clock)
               IN  IF storeUp
                   THEN LET d == insertOrUpdateMember(db, nextId, name, activity, state, clock)
                        IN  /\ db' = d
                            /\ nextId' = IF findIndex(db, name) > 0 THEN nextId ELSE nextId + 1
                            /\ history' = IF historyOk
                                          THEN insertHistory(history, d[1].id, activity,
                                                             state, clock)
                                          ELSE history
                            /\ writeData(data, writeOk)
                   ELSE /\ UNCHANGED <<db, nextId, history>>
                        /\ writeData(data, writeOk)
    /\ UNCHANGED <<storeUp, body, query, watchTimeout, liveTimers, burst, lastCycle, connVars,
                   regVars, clientVars>>

\* app.delete('/api/status/:name'). With the store up an unknown name is
\* answered 404; the fallback branch answers 500 when the mirror cannot be
\* written; every other request is answered with success.
DeleteStatus(name, writeOk) ==
    /\ request' = req("DELETE", name, "", "")
    /\ response' = IF storeUp /\ findIndex(db, name) = 0 THEN "404"
                   ELSE IF storeUp \/ writeOk THEN "200" ELSE "500"
    /\ IF storeUp /\ findIndex(db, name) = 0
       THEN UNCHANGED <<db, history, mirror, fileReadable, fsEvents>>
       ELSE LET data == filterName(readData, name)
            IN  IF storeUp
                THEN LET d == deleteMember(db, name)
                     IN  /\ db' = d
                         /\ history' = cascade(history, d)
                         /\ writeData(data, writeOk)
                ELSE /\ UNCHANGED <<db, history>>
                     /\ writeData(data, writeOk)
    /\ UNCHANGED <<nextId, storeUp, clock, body, query, watchTimeout, liveTimers, burst,
                   lastCycle, connVars, regVars, clientVars>>

\* The store starts or stops failing (db is null after a failed
\* initDatabase(); a statement throws).
StoreFault ==
    /\ storeUp' = ~storeUp
    /\ UNCHANGED <<db, nextId, history, mirror, fileReadable, clock, response,
                   request, body, query, sourceVars, connVars, regVars, clientVars>>

\* The mirror file becomes unreadable (readData() catches and logs).
FileFault ==
    /\ fileReadable
    /\ fileReadable' = FALSE
    /\ UNCHANGED <<db, nextId, history, storeUp, mirror, clock, response,
                   request, body, query, sourceVars, connVars, regVars, clientVars>>

\* db.migrateFromJSON: every member of the file that getMemberByName() does
\* not find is inserted with its timestamp, together with a first history
\* row. The result is the rows, the next id and the history.
RECURSIVE migrateFrom(_, _, _, _, _)
migrateFrom(d, id, h, members, i) ==
    IF i > Len(members) THEN <<d, id, h>>
    ELSE IF findIndex(d, members[i].name) > 0
         THEN migrateFrom(d, id, h, members, i + 1)
         ELSE migrateFrom(insertOrUpdateMember(d, id, members[i].name,
                                               members[i].activity, members[i].state,
                                               members[i].timestamp),
                          id + 1,
                          insertHistory(h, id, members[i].activity, members[i].state,
                                        members[i].timestamp),
                          members, i + 1)
migrateFromJSON(d, id, h) == migrateFrom(d, id, h, mirror, 1)

\* The server process is started again on the store and the file it left:
\* initDatabase() and migrateFromJSON(DATA_FILE). A failing initDatabase()
\* leaves db null; a file that cannot be parsed makes migrateFromJSON throw
\* before it writes, and the server goes on with the store as it is. The
\* registry, the debounce timer and the open connections of the old process
\* are gone.
Restart(initOk) ==
    /\ nextId <= MaxId
    /\ storeUp' = initOk
    /\ IF initOk /\ fileReadable
       THEN LET m == migrateFromJSON(db, nextId, history)
            IN  db' = m[1] /\ nextId' = m[2] /\ history' = m[3]
       ELSE UNCHANGED <<db, nextId, history>>
    /\ sseClients' = <<>>
    /\ phase' = [c \in Conns |->
                    IF phase[c] \in {"accepted", "streaming"} THEN "closed" ELSE phase[c]]
    /\ fsEvents' = 0 /\ watchTimeout' = "null" /\ liveTimers' = 0 /\ burst' = "none"
    /\ UNCHANGED <<mirror, fileReadable, clock, response, request, body, query,
                   lastCycle, chan, abort, lastData, hbFailed, clientVars>>

\* Something else modifies family-status.json without changing its members
\* (the watcher reports every change of the file, whoever makes it).
FileTouched ==
    /\ fsEvents' = Min(fsEvents + 1, MaxEvents)
    /\ UNCHANGED <<storeVars, watchTimeout, liveTimers, burst, lastCycle,
                   connVars, regVars, clientVars>>

\* ---------------------------------------------------------- change source
\* clearTimeout(watchTimeout): a scheduled timeout is cancelled; a handle
\* that has fired cancels nothing.
clearTimeoutNoop(handle, live) == live
clearTimeout(handle, live) == IF handle = "live" THEN live - 1 ELSE live

\* What a broadcast cycle or a handshake reads as the current full state:
\* db.getAllMembers(), and readData() when that throws.
readCurrentStoreOnly == getAllMembers(db)
readCurrent == IF storeUp THEN getAllMembers(db) ELSE readData

\* Which of the two reads gave it: the store, the mirror file, or the
\* { members: [] } readData() returns for a file it cannot read.
readSource == IF storeUp THEN "store" ELSE IF fileReadable THEN "mirror" ELSE "empty"

\* app.get('/api/status'): db.getAllMembers(), readData() when that throws.
getStatus ==
    /\ request' = req("GET", "", "", "")
    /\ response' = "200"
    /\ body' = readCurrent
    /\ UNCHANGED <<db, nextId, history, storeUp, mirror, fileReadable, clock, query,
                   sourceVars, connVars, regVars>>

\* GET /api/status from some other client.
GetStatus ==
    /\ getStatus
    /\ UNCHANGED clientVars

\* GET /api/status of a pull of the browser: the response is on its way.
ServePull ==
    /\ Len(responses) < fetching
    /\ getStatus
    /\ responses' = Append(responses, readCurrent)
    /\ UNCHANGED <<controlVars, viewVars, settingsVars, traceVars>>

\* ----------------------------------------------------------- history reads
\* The values of the query parameters limit and offset that are tried:
\* decimal strings, as a sign and the number the digits denote.
LimitArgs ==
    {<<sg, m>> : sg \in {"", "-"},
                 m \in (0..MaxArg) \cup {DEFAULT_LIMIT}
                            \cup ((LIMIT_CAP - 1)..(LIMIT_CAP + MaxArg))}
OffsetArgs == {<<sg, m>> : sg \in {"", "-"}, m \in 0..MaxArg}
\* The numbers of history rows that match the WHERE clause.
Totals == {1, LIMIT_CAP + MaxArg}

\* parseInt(q, 10) of a decimal string.
parseInt(q) == IF q[1] = "-" THEN 0 - q[2] ELSE q[2]

\* n || d for a number n: d when n is 0.
OrElse(n, d) == IF n = 0 THEN d ELSE n

\* Math.min(parseInt(limit, 10) || 100, 1000)
parsedLimit(limit) == Min(OrElse(parseInt(limit), DEFAULT_LIMIT), LIMIT_CAP)

\* parseInt(offset, 10) || 0
parsedOffset(offset) == OrElse(parseInt(offset), 0)

\* How many rows SELECT ... LIMIT ? OFFSET ? returns out of total matching
\* rows: a negative LIMIT is no limit, a negative OFFSET is no offset.
selectRows(total, limit, offset) ==
    LET skipped == IF offset < 0 THEN 0 ELSE Min(offset, total)
    IN  IF limit < 0 THEN total - skipped ELSE Min(limit, total - skipped)

\* The options object and the rows db.getAllHistory / db.getHistoryByMemberId
\* return for it.
historyQuery(limit, offset, total) ==
    <<[limit |-> parsedLimit(limit), offset |-> parsedOffset(offset),
       rows |-> selectRows(total, parsedLimit(limit), parsedOffset(offset))]>>

\* app.get('/api/history'): 500 when the store throws.
GetHistory(limit, offset, total) ==
    /\ request' = req("HISTORY", "", "", "")
    /\ IF storeUp
       THEN response' = "200" /\ query' = historyQuery(limit, offset, total)
       ELSE response' = "500" /\ UNCHANGED query
    /\ UNCHANGED <<db, nextId, history, storeUp, mirror, fileReadable, clock, body,
                   sourceVars, connVars, regVars, clientVars>>

\* app.get('/api/history/:name'): 404 for a name the store does not hold.
GetMemberHistory(name, limit, offset, total) ==
    /\ request' = req("HISTORY", name, "", "")
    /\ IF ~storeUp
       THEN response' = "500" /\ UNCHANGED query
       ELSE IF findIndex(db, name) = 0
            THEN response' = "404" /\ UNCHANGED query
            ELSE response' = "200" /\ query' = historyQuery(limit, offset, total)
    /\ UNCHANGED <<db, nextId, history, storeUp, mirror, fileReadable, clock, body,
                   sourceVars, connVars, regVars, clientVars>>

\* ------------------------------------------------------- broadcast engine
\* What the body of the forEach does with one client.
Outcome(c) ==
    IF chan[c] = "ended" THEN "ended"
    ELSE IF chan[c] = "throws" THEN "threw"
    ELSE "written"

\* The forEach over the registry: the outcome at each index.
forEachAbort(reg) ==
    [i \in 1..Len(reg) |->
        IF \E j \in 1..(i - 1) : Outcome(reg[j]) = "threw" THEN "skipped"
        ELSE Outcome(reg[i])]
forEach(reg) == [i \in 1..Len(reg) |-> Outcome(reg[i])]

\* disconnectedClients: the indices pushed during the forEach, ascending.
RECURSIVE disconnectedFrom(_, _)
disconnectedFrom(out, i) ==
    IF i > Len(out) THEN <<>>
    ELSE IF out[i] \in {"ended", "threw"} THEN <<i>> \o disconnectedFrom(out, i + 1)
    ELSE disconnectedFrom(out, i + 1)
disconnectedClients(out) == disconnectedFrom(out, 1)

\* disconnectedClients.reverse()
NoReverse(s) == s
Reverse(s) == [i \in 1..Len(s) |-> s[Len(s) + 1 - i]]

\* disconnectedClients.reverse().forEach(index => sseClients.splice(index, 1))
RECURSIVE spliceEach(_, _)
spliceEach(reg, idx) ==
    IF idx = <<>> THEN reg ELSE spliceEach(splice(reg, Head(idx)), Tail(idx))
removeDisconnected(reg, out) == spliceEach(reg, Reverse(disconnectedClients(out)))

\* How many times a pass with these outcomes writes to each connection.
Wrote(reg, out) ==
    [c \in Conns |-> Cardinality({i \in 1..Len(reg) : reg[i] = c /\ out[i] = "written"})]

\* broadcastToClients(data)
broadcastToClients(data) ==
    LET out == forEach(sseClients)
        w == Wrote(sseClients, out)
    IN  /\ lastData' = [c \in Conns |-> IF w[c] > 0 THEN data ELSE lastData[c]]
        /\ sseClients' = removeDisconnected(sseClients, out)
        /\ UNCHANGED hbFailed

\* The callback of fs.watch(DATA_FILE): restart the debounce timer.
FsWatchEvent ==
    /\ fsEvents > 0
    /\ fsEvents' = fsEvents - 1
    /\ liveTimers' = (IF watchTimeout # "null"
                      THEN clearTimeout(watchTimeout, liveTimers)
                      ELSE liveTimers) + 1
    /\ watchTimeout' = "live"
    /\ burst' = IF burst = "none" THEN "one" ELSE "many"
    /\ UNCHANGED <<storeVars, lastCycle, connVars, regVars, clientVars>>

\* The debounce timeout fires: one read-and-broadcast cycle.
WatchTimerFire ==
    /\ liveTimers > 0
    /\ liveTimers' = liveTimers - 1
    /\ watchTimeout' = IF liveTimers = 1 THEN "fired" ELSE "live"
    /\ burst' = "none"
    /\ lastCycle' = readSource
    /\ broadcastToClients(readCurrent)
    /\ UNCHANGED <<storeVars, fsEvents, connVars, clientVars>>

\* The registry after the keep-alive pass: the callback removes nothing.
heartbeatEvict(reg, out) == removeDisconnected(reg, out)
heartbeatRegistry(reg, out) == reg

\* The setInterval callback of the keep-alive. A ':heartbeat' comment frame
\* is written to every client that has not ended; a throw is swallowed.
Heartbeat ==
    /\ Len(sseClients) > 0
    /\ LET out == forEach(sseClients)
       IN  /\ sseClients' = heartbeatRegistry(sseClients, out)
           /\ hbFailed' = [c \in Conns |->
                   hbFailed[c] \/ \E i \in 1..Len(out) :
                                     sseClients[i] = c /\ out[i] # "written"]
    /\ UNCHANGED <<storeVars, sourceVars, connVars, lastData, clientVars>>


\* ------------------------------------------------- stream session protocol
\* A GET /api/status/stream arrives and is on its way through the middleware
\* (cors, express.json, express.static) to the route handler.
Accept(c) ==
    /\ phase[c] = "idle"
    /\ \A b \in Conns : b < c => phase[b] # "idle"
    /\ phase' = [phase EXCEPT ![c] = "accepted"]
    /\ UNCHANGED <<storeVars, sourceVars, chan, abort, regVars, clientVars>>

\* The peer goes away before the route handler has run.
PeerAbort(c) ==
    /\ phase[c] = "accepted"
    /\ ~abort[c]
    /\ abort' = [abort EXCEPT ![c] = TRUE]
    /\ UNCHANGED <<storeVars, sourceVars, phase, chan, regVars, clientVars>>

\* The response object stops taking writes: write() throws from now on, or
\* (for a registered stream) the response has been ended.
ChannelFault(c, kind) ==
    /\ chan[c] = "ok"
    /\ \/ kind = "throws" /\ phase[c] \in {"accepted", "streaming"}
       \/ kind = "ended" /\ phase[c] = "streaming"
    /\ chan' = [chan EXCEPT ![c] = kind]
    /\ UNCHANGED <<storeVars, sourceVars, phase, abort, regVars, clientVars>>

\* The first frame: db.getAllMembers(), readData() when that throws.
handshakeFrameEmpty == <<>>
handshakeFrame == readCurrent

\* sseClients.push(client)
register(reg, c) == Append(reg, c)

\* app.get('/api/status/stream'): headers, first frame, registration, and the
\* 'close' listener. A throwing flushHeaders()/write() leaves the handler;
\* nothing in the handler looks at whether the peer is still there.
StreamHandler(c) ==
    /\ phase[c] = "accepted"
    /\ IF chan[c] = "throws"
       THEN /\ phase' = [phase EXCEPT ![c] = "failed"]
            /\ UNCHANGED <<lastData, sseClients>>
       ELSE /\ phase' = [phase EXCEPT ![c] = "streaming"]
            /\ lastData' = [lastData EXCEPT ![c] = handshakeFrame]
            /\ sseClients' = register(sseClients, c)
    /\ UNCHANGED <<storeVars, sourceVars, chan, abort, hbFailed, clientVars>>

\* The listener of req.on('close'): findIndex by id, splice when found.
closeHandlerAny(reg, c) ==
    LET S == {i \in 1..Len(reg) : reg[i] = c}
        index == IF S = {} THEN 0 ELSE CHOOSE i \in S : \A j \in S : i <= j
    IN  IF index # 0 THEN splice(reg, index) ELSE SubSeq(reg, 1, Len(reg) - 1)
closeHandler(reg, c) ==
    LET S == {i \in 1..Len(reg) : reg[i] = c}
        index == IF S = {} THEN 0 ELSE CHOOSE i \in S : \A j \in S : i <= j
    IN  IF index # 0 THEN splice(reg, index) ELSE reg

\* The transport reports the disconnect of a stream whose handler has run.
\* The 'close' of a request whose peer left before the handler attached the
\* listener has been emitted already and is not emitted again.
Close(c) ==
    /\ phase[c] = "streaming"
    /\ ~abort[c]
    /\ phase' = [phase EXCEPT ![c] = "closed"]
    /\ sseClients' = closeHandler(sseClients, c)
    /\ UNCHANGED <<storeVars, sourceVars, chan, abort, lastData, hbFailed, clientVars>>

\* ------------------------------------------- client reconnection controller
\* Math.min(RECONNECT_INTERVAL * reconnectAttempts, 30000)
reconnectDelayFixed(attempts) == RECONNECT_INTERVAL
reconnectDelay(attempts) == Min(RECONNECT_INTERVAL * attempts, RECONNECT_CAP)

\* reconnectAttempts < MAX_RECONNECT_ATTEMPTS, evaluated after the increment
shouldRetryInclusive(attempts) == attempts <= MAX_RECONNECT_ATTEMPTS
shouldRetry(attempts) == attempts < MAX_RECONNECT_ATTEMPTS

\* How many connections eventSource.close() ends: the one the object holds
\* unless it is closed already (or there is no object).
closesNothing(es) == 0
closes(es) == IF es \in {"connecting", "open"} THEN 1 ELSE 0

\* How many timeouts clearTimeout(reconnectTimer) cancels, behind the test
\* if (reconnectTimer).
cancelsNothing(timer) == 0
cancels(timer) == IF timer # 0 THEN 1 ELSE 0

\* connectSSE(): close the existing EventSource, create a new one.
connectSSE ==
    /\ eventSource' = "connecting"
    /\ openSources' = openSources - closes(eventSource) + 1

\* closeSSE(): close and forget the EventSource, clear the reconnect timer.
closeSSE ==
    /\ eventSource' = "null"
    /\ openSources' = openSources - closes(eventSource)
    /\ reconnectTimer' = 0
    /\ pendingTimers' = pendingTimers - cancels(reconnectTimer)

\* startPolling(): stopPolling(), then setInterval(..., pollingInterval * 1000).
startPolling(interval) ==
    /\ pollingTimer' = TRUE
    /\ pollingDelay' = interval * 1000

\* stopPolling(): clearInterval(pollingTimer).
stopPolling ==
    /\ pollingTimer' = FALSE
    /\ pollingDelay' = 0

\* reconnectAttempts = 0 of onopen
attemptsAfterOpenKept(attempts) == attempts
attemptsAfterOpen(attempts) == 0

\* eventSource.onopen
SseOpen ==
    /\ eventSource = "connecting"
    /\ eventSource' = "open"
    /\ reconnectAttempts' = attemptsAfterOpen(reconnectAttempts)
    /\ reconnectTimer' = 0
    /\ pendingTimers' = pendingTimers - cancels(reconnectTimer)
    /\ errors' = 0 /\ connects' = 0
    /\ UNCHANGED <<serverVars, useSSE, pollingTimer, fetching, unloaded, openSources,
                   viewVars, settingsVars, responses, delivery, fresh>>

\* eventSource.onerror: close, count, and retry later or fall back to polling
\* (fetchStatus(); startPolling()).
SseError ==
    /\ eventSource \in {"connecting", "open"}
    /\ eventSource' = "closed"
    /\ openSources' = openSources - closes(eventSource)
    /\ reconnectAttempts' = reconnectAttempts + 1
    /\ IF shouldRetry(reconnectAttempts + 1)
       THEN /\ IF reconnectTimer = 0
               THEN /\ reconnectTimer' = reconnectDelay(reconnectAttempts + 1)
                    /\ pendingTimers' = pendingTimers + 1
               ELSE UNCHANGED <<reconnectTimer, pendingTimers>>
            /\ UNCHANGED <<useSSE, pollingTimer, pollingDelay, fetching>>
       ELSE /\ fetching < MaxFetch
            /\ useSSE' = FALSE
            /\ fetching' = fetching + 1
            /\ startPolling(pollingInterval)
            /\ UNCHANGED <<reconnectTimer, pendingTimers>>
    /\ errors' = errors + 1 /\ fresh' = TRUE
    /\ UNCHANGED <<serverVars, unloaded, viewVars, pollingInterval, savedInterval,
                   lastSave, responses, connects, delivery>>

\* The timeout set by onerror: reconnectTimer = null; connectSSE().
ReconnectTimerFire ==
    /\ pendingTimers > 0
    /\ pendingTimers' = pendingTimers - 1
    /\ reconnectTimer' = 0
    /\ connectSSE
    /\ connects' = connects + 1
    /\ UNCHANGED <<serverVars, reconnectAttempts, useSSE, pollingTimer, fetching,
                   unloaded, viewVars, settingsVars, responses, errors, delivery,
                   fresh>>

\* The setInterval callback of startPolling: fetchStatus().
PollTick ==
    /\ pollingTimer
    /\ fetching < MaxFetch
    /\ fetching' = fetching + 1
    /\ UNCHANGED <<serverVars, eventSource, reconnectTimer, reconnectAttempts, useSSE,
                   pollingTimer, unloaded, openSources, pendingTimers, viewVars,
                   settingsVars, responses, traceVars>>

\* saveSettings(): a message is shown and the dialog is hidden; no timer and
\* no connection is touched.
SaveSettings ==
    /\ ~unloaded
    /\ lastSave' = "saved"
    /\ UNCHANGED <<serverVars, controlVars, viewVars, pollingInterval, savedInterval,
                   pollingDelay, responses, traceVars>>

\* submitStatus() with neither an activity nor a state selected: fetchStatus().
SubmitStatus ==
    /\ ~unloaded
    /\ fetching < MaxFetch
    /\ fetching' = fetching + 1
    /\ UNCHANGED <<serverVars, eventSource, reconnectTimer, reconnectAttempts, useSSE,
                   pollingTimer, unloaded, openSources, pendingTimers, viewVars,
                   settingsVars, responses, traceVars>>

\* The beforeunload listener: closeSSE(); stopPolling().
Unload ==
    /\ ~unloaded
    /\ unloaded' = TRUE
    /\ closeSSE
    /\ stopPolling
    /\ UNCHANGED <<serverVars, reconnectAttempts, useSSE, fetching, viewVars,
                   pollingInterval, savedInterval, lastSave, responses, traceVars>>

\* ------------------------------------------------ client display and notices
mem(n, a, s, t) == [name |-> n, activity |-> a, state |-> s, timestamp |-> t]

\* The member lists a frame or a pull response carries: in the store's order
\* (last written first) or in the mirror's (insertion order).
Snapshots ==
    { <<>>,
      <<mem("A", "home", "", 1)>>,
      <<mem("B", "out", "", 2), mem("A", "home", "", 1)>>,
      <<mem("A", "home", "", 3), mem("B", "out", "", 2)>>,
      <<mem("A", "home", "", 5), mem("B", "out", "", 2)>>,
      <<mem("A", "home", "busy", 4), mem("B", "out", "", 2)>>,
      <<mem("B", "out", "", 2), mem("A", "work", "", 6)>> }

\* event.data of a stream frame: a snapshot, text JSON.parse rejects, or a
\* JSON document without a members list.
Frames ==
    {[kind |-> "data", members |-> m] : m \in Snapshots}
        \cup {[kind |-> k, members |-> <<>>] : k \in {"garbage", "nomembers"}}

\* What a pull gets: a snapshot, or a failure (network error, status not ok).
Pulls ==
    {[kind |-> "data", members |-> m] : m \in Snapshots}
        \cup {[kind |-> "failed", members |-> <<>>]}

\* lastStatusHash = null
NullHash == <<[null |-> TRUE]>>

\* calculateStatusHash(members): JSON.stringify of the list of
\* { name, activity, state }, in the order of the list.
calculateStatusHash(members) ==
    [i \in 1..Len(members) |->
        [name |-> members[i].name, activity |-> members[i].activity,
         state |-> members[i].state]]

\* members.reduce((latest, current) =>
\*     new Date(current.timestamp) > new Date(latest.timestamp) ? current : latest)
RECURSIVE reduceLatest(_, _, _)
reduceLatest(members, latest, i) ==
    IF i > Len(members) THEN latest
    ELSE reduceLatest(members,
                      IF members[i].timestamp > latest.timestamp
                      THEN members[i] ELSE latest,
                      i + 1)
latestFirst(members) == members[1]
latestMember(members) == reduceLatest(members, members[1], 2)

\* sendNotification(title): nothing without the permission.
sendNotification(title) ==
    IF notificationPermission = "granted" THEN <<title>> ELSE <<>>

\* notifyStatusChange(members)
notifyStatusChange(members) ==
    IF members = <<>> THEN <<>> ELSE sendNotification(latestMember(members).name)

\* [...members].sort((a, b) => new Date(b.timestamp) - new Date(a.timestamp)):
\* newest first, stable.
RECURSIVE insertByTime(_, _)
insertByTime(sorted, m) ==
    IF sorted = <<>> THEN <<m>>
    ELSE IF Head(sorted).timestamp >= m.timestamp
         THEN <<Head(sorted)>> \o insertByTime(Tail(sorted), m)
         ELSE <<m>> \o sorted
RECURSIVE sortFrom(_, _, _)
sortFrom(members, sorted, i) ==
    IF i > Len(members) THEN sorted
    ELSE sortFrom(members, insertByTime(sorted, members[i]), i + 1)
displayStatus(members) == sortFrom(members, <<>>, 1)

\* JSON.parse(event.data) and data.members.map(...) go through without a throw.
parsesAll(frame) == TRUE
parses(frame) == frame.kind = "data"

\* The body of onmessage once the frame is parsed: compare fingerprints,
\* notify, store the fingerprint, display.
applySnapshot(members) ==
    LET currentHash == calculateStatusHash(members)
    IN  /\ notices' = IF lastStatusHash # NullHash /\ lastStatusHash # currentHash
                      THEN notifyStatusChange(members) ELSE <<>>
        /\ lastStatusHash' = currentHash
        /\ currentMembers' = displayStatus(members)

\* The body of fetchStatus once response.json() has resolved: compare
\* fingerprints, notify, store the fingerprint, display.
applyFetchedSilently(members) ==
    /\ notices' = <<>>
    /\ lastStatusHash' = calculateStatusHash(members)
    /\ currentMembers' = displayStatus(members)
applyFetched(members) ==
    LET currentHash == calculateStatusHash(members)
    IN  /\ notices' = IF lastStatusHash # NullHash /\ lastStatusHash # currentHash
                      THEN notifyStatusChange(members) ELSE <<>>
        /\ lastStatusHash' = currentHash
        /\ currentMembers' = displayStatus(members)

\* No snapshot has been applied yet.
NoDelivery == [members |-> <<>>, first |-> FALSE]

\* A snapshot has been applied: what arrived, and whether a stream error lies
\* between it and the snapshot applied before.
delivered(members) ==
    /\ delivery' = [members |-> members, first |-> fresh]
    /\ fresh' = FALSE

\* eventSource.onmessage: a throw of the parse or of the fingerprint is caught
\* and logged.
SseMessage(frame) ==
    /\ eventSource = "open"
    /\ lastFrame' = frame.kind
    /\ IF parses(frame)
       THEN applySnapshot(frame.members) /\ delivered(frame.members)
       ELSE /\ notices' = <<>>
            /\ UNCHANGED <<lastStatusHash, currentMembers, delivery, fresh>>
    /\ UNCHANGED <<serverVars, controlVars, notificationPermission, settingsVars,
                   responses, errors, connects>>

\* The rest of fetchStatus() after await fetch(API_STATUS): the response is
\* applied, or the failure is caught and shown as an error.
fetchReturns(pull) ==
    /\ fetching > 0
    /\ fetching' = fetching - 1
    /\ IF pull.kind = "data"
       THEN applyFetched(pull.members) /\ delivered(pull.members)
       ELSE /\ notices' = <<>>
            /\ UNCHANGED <<lastStatusHash, currentMembers, delivery, fresh>>
    /\ UNCHANGED <<serverVars, eventSource, reconnectTimer, reconnectAttempts, useSSE,
                   pollingTimer, unloaded, openSources, pendingTimers,
                   notificationPermission, lastFrame, settingsVars, errors, connects>>

\* A fetchStatus() call gets its response, or fails.
FetchDone(pull) ==
    /\ fetchReturns(pull)
    /\ UNCHANGED responses

\* The response to one of the pulls in flight arrives (each pull has its own
\* HTTP exchange, so the responses arrive in any order).
PullArrives(i) ==
    /\ i \in 1..Len(responses)
    /\ fetchReturns([kind |-> "data", members |-> responses[i]])
    /\ responses' = splice(responses, i)

\* The data frame the server wrote last to the browser's stream arrives.
FrameArrives ==
    /\ phase[1] = "streaming"
    /\ lastData[1] # NoFrame
    /\ SseMessage([kind |-> "data", members |-> lastData[1]])

\* Notification.requestPermission() resolves.
PermissionAnswer(permission) ==
    /\ notificationPermission = "default"
    /\ notificationPermission' = permission
    /\ UNCHANGED <<serverVars, controlVars, lastStatusHash, currentMembers, notices,
                   lastFrame, settingsVars, responses, traceVars>>

\* ------------------------------------------- settings (polling revision)
\* The texts of the interval input that are tried: decimal strings as a sign
\* and the number the digits denote, and a text without digits.
SettingArgs ==
    {<<sg, m>> : sg \in {"", "-"},
                 m \in (0..MaxArg) \cup {DEFAULT_INTERVAL}
                            \cup ((MAX_INTERVAL - 1)..(MAX_INTERVAL + MaxArg))}
        \cup {<<"x", 0>>}

\* isNaN(parseInt(text, 10))
isNaN(text) == text[1] = "x"

\* String(n), as localStorage.setItem stores a number.
toText(n) == IF n < 0 THEN <<"-", 0 - n>> ELSE <<"", n>>

\* newInterval < 1 || newInterval > 300 is false.
validIntervalAny(n) == TRUE
validInterval(n) == n >= MIN_INTERVAL /\ n <= MAX_INTERVAL

\* loadSettings(): the stored interval when there is one.
loadSettings(interval) ==
    IF savedInterval # <<>> THEN parseInt(savedInterval) ELSE interval

\* saveSettings() of the polling revision: validate, assign, store, restart
\* the polling.
SaveSettingsPolling(value) ==
    /\ ~unloaded
    /\ IF isNaN(value) \/ ~validInterval(parseInt(value))
       THEN /\ lastSave' = "rejected"
            /\ UNCHANGED <<pollingInterval, savedInterval, pollingTimer, pollingDelay>>
       ELSE /\ lastSave' = "saved"
            /\ pollingInterval' = parseInt(value)
            /\ savedInterval' = toText(parseInt(value))
            /\ startPolling(parseInt(value))
    /\ UNCHANGED <<serverVars, eventSource, reconnectTimer, reconnectAttempts, useSSE,
                   fetching, unloaded, openSources, pendingTimers, viewVars,
                   responses, traceVars>>

\* The page is loaded again: init() of the polling revision on fresh
\* globals: loadSettings(), fetchStatus(), startPolling().
LoadPage ==
    /\ unloaded
    /\ unloaded' = FALSE
    /\ pollingInterval' = loadSettings(DEFAULT_INTERVAL)
    /\ startPolling(loadSettings(DEFAULT_INTERVAL))
    /\ fetching' = 1
    /\ lastStatusHash' = NullHash /\ currentMembers' = <<>>
    /\ notices' = <<>> /\ lastFrame' = "none" /\ lastSave' = "none"
    /\ responses' = <<>> /\ delivery' = NoDelivery /\ fresh' = FALSE
    /\ UNCHANGED <<serverVars, eventSource, reconnectTimer, reconnectAttempts, useSSE,
                   openSources, pendingTimers, notificationPermission, savedInterval,
                   errors, connects>>

\* ------------------------------------------------------------------- specs
InitServer ==
    /\ db = <<>> /\ nextId = 1 /\ history = <<>> /\ storeUp = TRUE
    /\ mirror = <<>> /\ fileReadable = TRUE /\ clock = 0 /\ response = "none"
    /\ request = req("none", "", "", "") /\ body = NoFrame /\ query = <<>>
    /\ fsEvents = 0 /\ watchTimeout = "null" /\ liveTimers = 0
    /\ burst = "none" /\ lastCycle = "none"
    /\ sseClients = <<>>
    /\ phase = [c \in Conns |-> "idle"]
    /\ chan = [c \in Conns |-> "ok"]
    /\ abort = [c \in Conns |-> FALSE]
    /\ lastData = [c \in Conns |-> NoFrame]
    /\ hbFailed = [c \in Conns |-> FALSE]

\* The globals of the display, and initializeNotifications() in a browser
\* that has not been asked for the permission yet.
InitView ==
    /\ lastStatusHash = NullHash /\ currentMembers = <<>>
    /\ notificationPermission = "default" /\ notices = <<>> /\ lastFrame = "none"
    /\ responses = <<>> /\ errors = 0
    /\ delivery = NoDelivery /\ fresh = FALSE

\* init(): connectSSE() when EventSource exists.
InitClient ==
    /\ reconnectTimer = 0 /\ reconnectAttempts = 0 /\ useSSE = TRUE
    /\ unloaded = FALSE /\ pendingTimers = 0
    /\ eventSource = "connecting" /\ openSources = 1
    /\ pollingTimer = FALSE /\ fetching = 0
    /\ pollingInterval = DEFAULT_INTERVAL /\ savedInterval = <<>>
    /\ pollingDelay = 0 /\ lastSave = "none"
    /\ connects = 1
    /\ InitView

\* init() without EventSource: fetchStatus() and startPolling().
InitClientPolling ==
    /\ reconnectTimer = 0 /\ reconnectAttempts = 0 /\ useSSE = TRUE
    /\ unloaded = FALSE /\ pendingTimers = 0
    /\ eventSource = "null" /\ openSources = 0
    /\ pollingTimer = TRUE /\ fetching = 1
    /\ pollingInterval = DEFAULT_INTERVAL /\ savedInterval = <<>>
    /\ pollingDelay = DEFAULT_INTERVAL * 1000 /\ lastSave = "none"
    /\ connects = 0
    /\ InitView

Init == InitServer /\ InitClient

\* The store, the mirror and the change source under every fault of the store
\* and of the file, with one stream that connects and disconnects cleanly.
Next ==
    \/ \E r \in Requests \ Rare, writeOk \in BOOLEAN :
            PostStatus(r[1], r[2], r[3], TRUE, writeOk)
    \/ \E writeOk \in BOOLEAN : DeleteStatus("A", writeOk)
    \/ StoreFault
    \/ FileFault
    \/ FileTouched
    \/ FsWatchEvent
    \/ WatchTimerFire
    \/ Accept(1)
    \/ StreamHandler(1)
    \/ Close(1)

Spec == Init /\ [][Next]_vars

\* The same, with the callbacks of the event loop run eventually: a delivered
\* fs.watch notification and a debounce timeout that is due.
LiveSpec == Spec /\ WF_vars(FsWatchEvent) /\ WF_vars(WatchTimerFire)

\* The registry under every fault of the connections, with a healthy store
\* that takes one status write.
NextRegistry ==
    \/ clock = 0 /\ PostStatus("A", "home", "", TRUE, TRUE)
    \/ FsWatchEvent
    \/ WatchTimerFire
    \/ Heartbeat
    \/ \E c \in Conns : Accept(c)
    \/ \E c \in Conns : PeerAbort(c)
    \/ \E c \in Conns, kind \in {"throws", "ended"} : ChannelFault(c, kind)
    \/ \E c \in Conns : StreamHandler(c)
    \/ \E c \in Conns : Close(c)

RegistrySpec == Init /\ [][NextRegistry]_vars

\* The server starts on a store and a mirror file a previous run left behind
\* (migrateFromJSON skips the members the store has).
InitRestarted ==
    /\ db = <<[id |-> 1, name |-> "A", activity |-> "home", state |-> "",
               timestamp |-> -1]>>
    /\ nextId = 2
    /\ history = <<[member_id |-> 1, activity |-> "home", state |-> "",
                    changed_at |-> -1]>>
    /\ mirror = <<[name |-> "A", activity |-> "home", state |-> "", timestamp |-> -1]>>
    /\ storeUp = TRUE /\ fileReadable = TRUE /\ clock = 0 /\ response = "none"
    /\ request = req("none", "", "", "") /\ body = NoFrame /\ query = <<>>
    /\ fsEvents = 0 /\ watchTimeout = "null" /\ liveTimers = 0
    /\ burst = "none" /\ lastCycle = "none"
    /\ sseClients = <<>>
    /\ phase = [c \in Conns |-> "idle"]
    /\ chan = [c \in Conns |-> "ok"]
    /\ abort = [c \in Conns |-> FALSE]
    /\ lastData = [c \in Conns |-> NoFrame]
    /\ hbFailed = [c \in Conns |-> FALSE]

InitStore == (InitServer \/ InitRestarted) /\ InitClient

\* The request handlers that write, under every fault of the store and of the
\* mirror file.
NextStore ==
    \/ \E r \in Requests, historyOk \in BOOLEAN, writeOk \in BOOLEAN :
            PostStatus(r[1], r[2], r[3], historyOk, writeOk)
    \/ \E name \in Names, writeOk \in BOOLEAN : DeleteStatus(name, writeOk)
    \/ StoreFault
    \/ FileFault

StoreSpec == InitStore /\ [][NextStore]_vars

\* The two reads of the current status, GET /api/status and the first frame
\* of a stream, under every fault of the store and of the mirror file.
NextRead ==
    \/ \E r \in Requests \ Rare, writeOk \in BOOLEAN :
            PostStatus(r[1], r[2], r[3], TRUE, writeOk)
    \/ GetStatus
    \/ StoreFault
    \/ FileFault
    \/ Accept(1)
    \/ StreamHandler(1)

ReadSpec == InitStore /\ [][NextRead]_vars

\* The request handlers that write and restarts of the server, under every
\* fault of the store and of the mirror file.
NextMigrate ==
    \/ \E r \in Requests \ Rare, writeOk \in BOOLEAN :
            PostStatus(r[1], r[2], r[3], TRUE, writeOk)
    \/ \E name \in Names, writeOk \in BOOLEAN : DeleteStatus(name, writeOk)
    \/ StoreFault
    \/ FileFault
    \/ \E initOk \in BOOLEAN : Restart(initOk)

MigrateSpec == InitStore /\ [][NextMigrate]_vars

\* One browser with its stream and its pulls against a healthy server that
\* takes status writes: requests, responses and frames in every order the
\* network allows.
NextRace ==
    \/ \E r \in Requests \ Rare : PostStatus(r[1], r[2], r[3], TRUE, TRUE)
    \/ FsWatchEvent
    \/ WatchTimerFire
    \/ Accept(1)
    \/ StreamHandler(1)
    \/ phase[1] = "streaming" /\ SseOpen
    \/ FrameArrives
    \/ SubmitStatus
    \/ ServePull
    \/ \E i \in 1..MaxFetch : PullArrives(i)
    \/ \E permission \in {"granted", "denied"} : PermissionAnswer(permission)

RaceSpec == InitStore /\ [][NextRace]_vars

\* The two history reads with every value of limit and offset tried, on a
\* store that may throw.
NextHistory ==
    \/ \E limit \in LimitArgs, offset \in OffsetArgs, total \in Totals :
            GetHistory(limit, offset, total)
    \/ \E name \in Names, limit \in LimitArgs, offset \in OffsetArgs, total \in Totals :
            GetMemberHistory(name, limit, offset, total)
    \/ StoreFault

HistorySpec == InitStore /\ [][NextHistory]_vars

NextClient ==
    \/ SseOpen
    \/ SseError
    \/ ReconnectTimerFire
    \/ PollTick
    \/ \E pull \in Pulls : FetchDone(pull)
    \/ \E frame \in Frames : SseMessage(frame)
    \/ \E permission \in {"granted", "denied"} : PermissionAnswer(permission)
    \/ SaveSettings
    \/ SubmitStatus
    \/ Unload

\* The polling revision of the page: settings saved with every text tried,
\* the page left and loaded again, pulls issued and answered.
NextSettings ==
    \/ \E value \in SettingArgs : SaveSettingsPolling(value)
    \/ LoadPage
    \/ Unload
    \/ PollTick
    \/ \E pull \in Pulls : FetchDone(pull)

InitSettings == InitServer /\ InitClientPolling

SettingsSpec == InitSettings /\ [][NextSettings]_vars

\* The page loads in a browser with or without EventSource.
InitPage == InitServer /\ (InitClient \/ InitClientPolling)

ClientSpec == InitPage /\ [][NextClient]_vars

\* ------------------------------------------------------------------ claims
InReg(c) == \E i \in 1..Len(sseClients) : sseClients[i] = c
Writable(c) == InReg(c) /\ chan[c] = "ok"
\* A step in which the debounce timeout fires (one broadcast cycle).
CycleStep == liveTimers' < liveTimers
\* A step in which the fs.watch callback runs.
SignalStep == fsEvents' < fsEvents

\* C1: a burst of signals, each arriving while the timer the previous one
\* started is pending, is answered by exactly one cycle: while signals are
\* unanswered exactly one timeout is scheduled and otherwise none; a signal
\* only restarts the timer and sends nothing; the cycle sends every writable
\* subscriber the state as read when the timer fires (the store's snapshot
\* after every write made so far, whenever the store can be read).
C1_OneCyclePerBurst ==
    /\ [](liveTimers = IF burst = "none" THEN 0 ELSE 1)
    /\ [][SignalStep => (liveTimers' = 1 /\ lastData' = lastData)]_vars
    /\ [][CycleStep =>
            /\ burst # "none" /\ burst' = "none" /\ liveTimers' = 0
            /\ \A c \in Conns : Writable(c) =>
                  /\ lastData'[c] = readCurrent'
                  /\ storeUp => lastData'[c] = getAllMembers(db')]_vars

C1_Witness ==
    /\ burst = "many" /\ liveTimers = 1 /\ lastCycle = "store"
    /\ Writable(1) /\ Len(db) > 0 /\ lastData[1] # getAllMembers(db)

\* C2: after a write of the store that is answered with success, every
\* registered subscriber is going to be sent the new snapshot: a signal or a
\* debounce timeout is pending.
C2_SuccessfulWriteIsPushed ==
    [][(db' # db /\ sseClients # <<>>) => (fsEvents' > 0 \/ liveTimers' > 0)]_vars

\* C3: a connection is registered only after it has been written the current
\* full snapshot, so that every registered subscriber has a data frame before
\* any broadcast or heartbeat reaches it; the first frame is the state read
\* during the handshake and holds every row the store holds at that moment.
C3_FirstFrameBeforeRegistration ==
    /\ [](\A c \in Conns : InReg(c) => lastData[c] # NoFrame)
    /\ [][\A c \in Conns : (phase[c] = "accepted" /\ phase'[c] = "streaming") =>
            /\ ~InReg(c) /\ InReg(c)'
            /\ lastData'[c] = readCurrent
            /\ storeUp => \A i \in 1..Len(db) : \E j \in 1..Len(lastData'[c]) :
                              lastData'[c][j] = Member(db[i])]_vars

C3_Witness ==
    /\ InReg(1) /\ lastCycle = "none" /\ burst = "none"
    /\ Len(db) > 0 /\ lastData[1] = getAllMembers(db)

\* C4: in one broadcast pass every registered subscriber whose channel is
\* writable is written the frame exactly once and stays registered, wherever
\* subscribers with an ended or throwing channel stand in the registry.
C4_FailuresDoNotBlockOthers ==
    [][CycleStep =>
          \A c \in Conns : Writable(c) =>
              /\ Wrote(sseClients, forEach(sseClients))[c] = 1
              /\ lastData'[c] = readCurrent
              /\ InReg(c)']_vars

C4_Witness ==
    \E c, d \in Conns :
        /\ phase[c] = "streaming" /\ ~InReg(c) /\ chan[c] = "throws"
        /\ Writable(d) /\ lastCycle = "store"
        /\ Len(db) > 0 /\ lastData[d] = getAllMembers(db)

\* C5: a connection whose disconnect the transport has signalled, after its
\* handler has run or while it was still on its way to the handler, has no
\* registry entry once the handler and the close listener have run.
C5_DisconnectedIsUnregistered ==
    \A c \in Conns :
        (phase[c] = "closed" \/ (abort[c] /\ phase[c] = "streaming")) => ~InReg(c)

\* C6: the close handler is idempotent: run a second time, or for a
\* connection a broadcast has already evicted, it leaves the registry as it
\* is, and it never removes the entry of another connection.
C6_UnregisterIdempotent ==
    \A c \in Conns :
        LET once == closeHandler(sseClients, c)
        IN  /\ closeHandler(once, c) = once
            /\ ~InReg(c) => once = sseClients
            /\ \A i \in 1..Len(once) : once[i] # c
            /\ SelectSeq(sseClients, LAMBDA d : d # c) = once

C6_Witness ==
    \E c, d \in Conns : phase[c] = "streaming" /\ ~InReg(c) /\ InReg(d)

C8_NoEntryAfterFailedHandshake ==
    [][\A c \in Conns :
          (phase[c] = "accepted" /\ phase'[c] # "accepted"
                /\ (abort[c] \/ chan[c] = "throws")) =>
              (phase'[c] # "streaming" /\ ~InReg(c)')]_vars

\* C9 as stated: a cycle that cannot read the store writes no data frame.
C9_FailedReadSkipsCycle ==
    [][(CycleStep /\ ~storeUp) => lastData' = lastData]_vars

\* C9 amended: a cycle that cannot read the store sends every writable
\* subscriber the mirror file's members, and an empty member list when the
\* file cannot be read either.
C9_FailedReadBroadcastsMirror ==
    [][(CycleStep /\ ~storeUp) =>
          /\ lastCycle' \in {"mirror", "empty"}
          /\ \A c \in Conns : Writable(c) =>
                lastData'[c] = IF fileReadable THEN mirror ELSE <<>>]_vars

C9_Witness ==
    /\ lastCycle = "mirror" /\ Writable(1)
    /\ Len(mirror) > 0 /\ lastData[1] = mirror /\ mirror # getAllMembers(db)

\* C10 as stated: after each of the consecutive errors 1..10 a retry is
\* scheduled after min(k * 3000, 30000) ms.
C10_RetryAfterEveryError ==
    (eventSource = "closed" /\ reconnectAttempts \in 1..MAX_RECONNECT_ATTEMPTS) =>
        reconnectTimer = Min(reconnectAttempts * RECONNECT_INTERVAL, RECONNECT_CAP)

\* C10 amended: after each of the consecutive errors 1..9 a retry is scheduled
\* after min(k * 3000, 30000) ms; after the 10th no retry is scheduled and the
\* client falls back to polling; the counter never passes 10.
C10_BackoffThenFallback ==
    /\ reconnectAttempts \in 0..MAX_RECONNECT_ATTEMPTS
    /\ reconnectTimer # 0 =>
          eventSource = "closed" /\ reconnectAttempts < MAX_RECONNECT_ATTEMPTS
    /\ eventSource = "closed" =>
          IF reconnectAttempts < MAX_RECONNECT_ATTEMPTS
          THEN /\ reconnectAttempts >= 1
               /\ reconnectTimer =
                      Min(reconnectAttempts * RECONNECT_INTERVAL, RECONNECT_CAP)
               /\ useSSE
          ELSE reconnectTimer = 0 /\ ~useSSE /\ pollingTimer

C10_Witness ==
    /\ eventSource = "closed" /\ reconnectAttempts = MAX_RECONNECT_ATTEMPTS
    /\ reconnectTimer = 0 /\ ~useSSE

\* C11: polling starts at the 10th consecutive stream error and at no other
\* moment: the step that sets the polling timer is the step in which the
\* counter goes from 9 to 10, that step issues one pull and gives up the
\* stream, and a client that started with a stream has no polling timer
\* before it.
C11_FallbackAtTenthFailure ==
    /\ [](pollingTimer =>
            \/ ~useSSE /\ reconnectAttempts = MAX_RECONNECT_ATTEMPTS
            \/ eventSource = "null" /\ reconnectAttempts = 0 /\ openSources = 0)
    /\ [][(~pollingTimer /\ pollingTimer') =>
            /\ reconnectAttempts = MAX_RECONNECT_ATTEMPTS - 1
            /\ reconnectAttempts' = MAX_RECONNECT_ATTEMPTS
            /\ useSSE /\ ~useSSE'
            /\ fetching' = fetching + 1]_vars
    /\ [][(reconnectAttempts' = MAX_RECONNECT_ATTEMPTS
                /\ reconnectAttempts # MAX_RECONNECT_ATTEMPTS) =>
            /\ pollingTimer' /\ ~useSSE' /\ fetching' = fetching + 1
            /\ eventSource' = "closed" /\ reconnectTimer' = 0]_vars

C11_Witness ==
    /\ pollingTimer /\ ~useSSE /\ ~unloaded /\ fetching > 0
    /\ reconnectAttempts = MAX_RECONNECT_ATTEMPTS /\ openSources = 0

\* C12: fallback is terminal: once useSSE is false it stays false, no
\* EventSource is open or being opened and no reconnect timer is pending.
C12_FallbackIsTerminal ==
    /\ [](~useSSE =>
            /\ eventSource \in {"closed", "null"} /\ openSources = 0
            /\ reconnectTimer = 0 /\ pendingTimers = 0)
    /\ [][~useSSE => ~useSSE']_vars

C12_Witness ==
    /\ ~useSSE /\ pollingTimer /\ fetching = 0 /\ eventSource = "closed"
    /\ lastStatusHash # NullHash

\* C13: at most one EventSource is open or being opened, and it is the one
\* the variable eventSource holds; at most one reconnect timeout is pending,
\* and it is the one the variable reconnectTimer holds.
C13_OneStreamOneTimer ==
    /\ openSources = IF eventSource \in {"connecting", "open"} THEN 1 ELSE 0
    /\ pendingTimers = IF reconnectTimer # 0 THEN 1 ELSE 0

C13_Witness ==
    /\ eventSource = "connecting" /\ reconnectAttempts >= 2
    /\ openSources = 1 /\ pendingTimers = 0

Triples(hash) == {hash[i] : i \in 1..Len(hash)}

\* C15 as stated: a snapshot that holds the same (name, activity, state)
\* triples as the one received before it, whatever the timestamps and the
\* order of the members, leaves the fingerprint as it is and raises no
\* notification.
C15_SameTriplesSameFingerprint ==
    [][(/\ lastStatusHash # NullHash /\ lastStatusHash' # NullHash
        /\ Triples(lastStatusHash') = Triples(lastStatusHash))
        => /\ lastStatusHash' = lastStatusHash
           /\ notices' \in {<<>>, notices}]_vars

\* Some member of both snapshots has another activity or another state in
\* the second than in the first.
Changed(old, new) ==
    \E i \in 1..Len(old), j \in 1..Len(new) :
        /\ old[i].name = new[j].name
        /\ old[i].activity # new[j].activity \/ old[i].state # new[j].state

\* The one notice names a member no other member of the displayed snapshot
\* is more recent than.
NamesMostRecent(shown, members) ==
    /\ Len(shown) = 1
    /\ \E k \in 1..Len(members) :
        /\ members[k].name = shown[1]
        /\ \A l \in 1..Len(members) : members[l].timestamp <= members[k].timestamp

\* C16: with the notification permission granted, a snapshot in which a
\* member's activity or state differs from the snapshot received before
\* raises exactly one notification, naming the member with the most recent
\* timestamp of the new snapshot; without the permission it raises none.
C16_ChangeNotifiesWhenGranted ==
    [][(/\ lastStatusHash # NullHash /\ lastStatusHash' # NullHash
        /\ Changed(lastStatusHash, lastStatusHash'))
        => IF notificationPermission = "granted"
           THEN NamesMostRecent(notices', currentMembers')
           ELSE notices' = <<>>]_vars

\* C16 as stated: every such snapshot raises exactly one notification naming
\* the most recent member.
C16_ChangeAlwaysNotifies ==
    [][(/\ lastStatusHash # NullHash /\ lastStatusHash' # NullHash
        /\ Changed(lastStatusHash, lastStatusHash'))
        => NamesMostRecent(notices', currentMembers')]_vars

\* A's change of activity was notified under A's name although the snapshot
\* lists B first.
C16_Witness ==
    /\ notificationPermission = "granted" /\ notices = <<"A">>
    /\ Len(lastStatusHash) = 2 /\ lastStatusHash[1].name = "B"
    /\ lastStatusHash[2].activity = "work"
    /\ currentMembers[1].name = "A"

\* C17: a frame that JSON.parse rejects, or that holds no members list, is
\* dropped: the connection stays open, the reconnect counter and timer, the
\* fingerprint and the displayed snapshot stay as they were, no fallback
\* happens and no notification is raised.
C17_BadFrameIsDropped ==
    [][(lastFrame' # lastFrame /\ lastFrame' \in {"garbage", "nomembers"})
        => /\ eventSource = "open" /\ eventSource' = "open"
           /\ UNCHANGED <<openSources, reconnectAttempts, reconnectTimer,
                          pendingTimers, useSSE, pollingTimer, fetching>>
           /\ UNCHANGED <<lastStatusHash, currentMembers>>
           /\ notices' = <<>>]_vars

\* A frame that does not parse arrived on an open connection that had
\* delivered a snapshot before.
C17_Witness ==
    /\ lastFrame = "garbage" /\ eventSource = "open"
    /\ lastStatusHash # NullHash /\ currentMembers # <<>>

\* C18: a POST without a name is answered 400 and changes nothing: the
\* current status, the history, the id counter and the mirror stay as they
\* were, no file event is raised and no broadcast timer is started; the
\* store and the mirror never hold a member without a name.
C18_NamelessPostChangesNothing ==
    /\ [](/\ \A i \in 1..Len(db) : db[i].name # ""
          /\ \A i \in 1..Len(mirror) : mirror[i].name # "")
    /\ [][(response' = "400" /\ response # "400")
            => UNCHANGED <<db, nextId, history, mirror, clock, sourceVars, regVars>>]_vars

\* A POST without a name was refused while the store held a member.
C18_Witness ==
    /\ response = "400" /\ Len(db) > 0 /\ Len(history) > 0 /\ Len(mirror) > 0

\* C19 as stated: a status write through the store keeps, for a member that
\* exists already, the prior value of a field the request leaves empty: a
\* field that had a value still has one in the snapshot read back after the
\* write.
C19_EmptyFieldKeepsPriorValue ==
    [][(storeUp /\ clock' = clock + 1 /\ response' = "200")
        => \A i \in 1..Len(db), j \in 1..Len(db') :
            getAllMembers(db)[i].name = getAllMembers(db')[j].name
                => /\ getAllMembers(db)[i].activity # ""
                        => getAllMembers(db')[j].activity # ""
                   /\ getAllMembers(db)[i].state # ""
                        => getAllMembers(db')[j].state # ""]_vars

\* C20 as stated: every status write answered with success appends exactly
\* one history row and leaves the rows before it as they were; every other
\* step removes only the rows of members that are no longer in the store.
C20_HistoryAppendOnly ==
    [][IF clock' = clock + 1 /\ response' = "200"
       THEN /\ Len(history') = Len(history) + 1
            /\ SubSeq(history', 1, Len(history)) = history
       ELSE history' = cascade(history, db')]_vars

\* A step in which POST /api/status runs past its validation.
UpdateStep == request'.op = "POST" /\ clock' = clock + 1

\* C21 as stated: one status update changes the member's current-status row
\* and appends a history row, or does neither, whether the request succeeds
\* or fails at any step.
C21_UpdateIsAtomic ==
    [][UpdateStep =>
        \/ /\ \E i \in 1..Len(db') :
                db'[i].name = request'.name /\ db'[i].timestamp = clock
           /\ Len(history') = Len(history) + 1
           /\ history'[Len(history')].changed_at = clock
        \/ UNCHANGED <<db, history>>]_vars

\* A step in which DELETE /api/status/:name runs.
DeleteStep ==
    request'.op = "DELETE" /\ (request' # request \/ response' # response)

\* C22 as stated: a POST or DELETE is answered with success only when both
\* the store write and the mirror write were carried out: after a POST
\* answered 200 the store row and the mirror entry of the name carry the
\* time of the request, after a DELETE answered 200 neither holds the name.
C22_WriteFailureIsReported ==
    /\ [][(UpdateStep /\ response' = "200") =>
            /\ \E i \in 1..Len(db') :
                    db'[i].name = request'.name /\ db'[i].timestamp = clock
            /\ \E i \in 1..Len(mirror') :
                    mirror'[i].name = request'.name /\ mirror'[i].timestamp = clock]_vars
    /\ [][(DeleteStep /\ response' = "200") =>
            /\ findIndex(db', request'.name) = 0
            /\ findIndex(mirror', request'.name) = 0]_vars

\* C23 as stated: a DELETE for a name that neither the store nor the mirror
\* holds is answered 404, changes neither of them and raises no file event
\* (so no broadcast), whether the store is available or not.
C23_DeleteUnknownIsNotFound ==
    [][(/\ DeleteStep
        /\ findIndex(db, request'.name) = 0
        /\ findIndex(mirror, request'.name) = 0)
        => /\ response' = "404"
           /\ UNCHANGED <<db, history, mirror, fileReadable, sourceVars>>]_vars

\* C24 as stated: every history row references a member of the store, and
\* after a DELETE answered with success no history row references the member
\* that had the deleted name.
C24_DeleteCascades ==
    /\ [](\A k \in 1..Len(history) :
            \E i \in 1..Len(db) : db[i].id = history[k].member_id)
    /\ [][(DeleteStep /\ response' = "200") =>
            \A i \in 1..Len(db) :
                db[i].name = request'.name
                    => \A k \in 1..Len(history') : history'[k].member_id # db[i].id]_vars

\* A step in which GET /api/status is answered.
GetStep == request'.op = "GET" /\ (request' # request \/ body' # body)

\* C25: while calls into the store throw, GET /api/status is answered 200
\* with the members of the mirror file, or with no member when the file
\* cannot be read, and the handler of GET /api/status/stream writes the same
\* as its first frame and registers the connection.
C25_ReadFallsBackToMirror ==
    /\ [][(GetStep /\ ~storeUp) =>
            /\ response' = "200"
            /\ body' = IF fileReadable THEN mirror ELSE <<>>]_vars
    /\ [][(phase[1] = "accepted" /\ phase'[1] # "accepted" /\ ~storeUp) =>
            /\ phase'[1] = "streaming"
            /\ lastData'[1] = IF fileReadable THEN mirror ELSE <<>>
            /\ InReg(1)']_vars

\* With the store unavailable, a GET and the first frame of a stream carried
\* the member the mirror holds and the store does not.
C25_Witness ==
    /\ ~storeUp /\ fileReadable /\ request.op = "GET" /\ response = "200"
    /\ body = mirror /\ Len(body) > 0 /\ db = <<>>
    /\ lastData[1] = mirror

\* C26 as stated: whatever integers limit and offset are, the query handed
\* to the store has a limit between 1 and 1000 and an offset that is not
\* negative, and returns at most 1000 rows.
C26_QueryWithinBounds ==
    \A i \in 1..Len(query) :
        /\ query[i].limit \in 1..LIMIT_CAP
        /\ query[i].offset >= 0
        /\ query[i].rows <= LIMIT_CAP

\* C27: the polling interval is 5 s until a setting is saved and always lies
\* in 1..300 s, as does the stored setting, and a running polling timer was
\* started with such an interval; a save that is rejected leaves the
\* interval, the stored setting and the running timer as they were.
C27_IntervalWithinBounds ==
    /\ [](/\ pollingInterval \in MIN_INTERVAL..MAX_INTERVAL
          /\ savedInterval = <<>> => pollingInterval = DEFAULT_INTERVAL
          /\ savedInterval # <<>> =>
                /\ ~isNaN(savedInterval)
                /\ parseInt(savedInterval) \in MIN_INTERVAL..MAX_INTERVAL
          /\ pollingTimer =>
                /\ pollingDelay >= MIN_INTERVAL * 1000
                /\ pollingDelay <= MAX_INTERVAL * 1000
          /\ ~pollingTimer => pollingDelay = 0)
    /\ [][(lastSave' = "rejected" /\ lastSave # "rejected") =>
            UNCHANGED <<pollingInterval, savedInterval, pollingTimer, pollingDelay>>]_vars

\* A save was rejected after the longest interval had been saved and the
\* page had been loaded again.
C27_Witness ==
    /\ lastSave = "rejected" /\ pollingInterval = MAX_INTERVAL
    /\ savedInterval = toText(MAX_INTERVAL) /\ pollingTimer
    /\ pollingDelay = MAX_INTERVAL * 1000 /\ lastStatusHash # NullHash

\* C28 as stated: once the writes and the faults have stopped, with the store
\* answering and the client's stream connected and writable from then on,
\* the snapshot last written to the client eventually equals the snapshot of
\* the store and stays equal to it.
C28_ConvergesToStore ==
    (/\ <>[][UNCHANGED <<db, mirror, storeUp, fileReadable>>]_vars
     /\ <>[](storeUp /\ Writable(1)))
        => <>[](lastData[1] = getAllMembers(db))

\* C29 as stated: the current-status table holds at most one row per name; a
\* POST answered with success leaves the row of its name with the activity,
\* the state and the time of that request, and no other step modifies a row
\* (rows are only removed).
C29_LastWriteWins ==
    /\ [](\A i, j \in 1..Len(db) : db[i].name = db[j].name => i = j)
    /\ [][IF UpdateStep /\ response' = "200"
          THEN \E i \in 1..Len(db') :
                    /\ db'[i].name = request'.name
                    /\ db'[i].activity = request'.activity
                    /\ db'[i].state = request'.state
                    /\ db'[i].timestamp = clock
          ELSE \A j \in 1..Len(db') : \E i \in 1..Len(db) : db[i] = db'[j]]_vars

\* C30: after a broadcast pass the registry holds exactly the subscribers it
\* held before whose channel was neither ended nor throwing, in the order
\* they had; every one of them was written the frame, wherever and however
\* many the failing entries were.
C30_RegistryAfterBroadcast ==
    [][CycleStep =>
        /\ sseClients' = SelectSeq(sseClients, LAMBDA c : chan[c] = "ok")
        /\ \A i \in 1..Len(sseClients') : lastData'[sseClients'[i]] = readCurrent]_vars

\* One pass has removed two failing subscribers, one ended and one throwing.
C30_Witness ==
    /\ lastCycle # "none" /\ sseClients = <<>>
    /\ phase[1] = "streaming" /\ phase[2] = "streaming"
    /\ chan[1] # "ok" /\ chan[2] # "ok" /\ chan[1] # chan[2]

\* C31: every successful open of the stream leaves the reconnect counter at
\* zero and no reconnect timeout pending, and they stay so while the stream
\* is open; the first error after an open counts as failure 1 and schedules
\* the retry after the first backoff delay.
C31_OpenResetsBackoff ==
    /\ [](eventSource = "open" =>
            reconnectAttempts = 0 /\ reconnectTimer = 0 /\ pendingTimers = 0)
    /\ [][(eventSource = "connecting" /\ eventSource' = "open") =>
            reconnectAttempts' = 0 /\ reconnectTimer' = 0 /\ pendingTimers' = 0]_vars
    /\ [][(eventSource = "open" /\ eventSource' = "closed") =>
            /\ reconnectAttempts' = 1 /\ useSSE'
            /\ reconnectTimer' = RECONNECT_INTERVAL /\ pendingTimers' = 1]_vars

\* The stream is open again after an error that followed a snapshot.
C31_Witness ==
    /\ eventSource = "open" /\ fresh /\ lastStatusHash # NullHash
    /\ reconnectAttempts = 0 /\ reconnectTimer = 0

\* A step in which a pull response is applied (a pull that fails before the
\* first snapshot leaves the fingerprint null).
PullStep == fetching' = fetching - 1 /\ lastStatusHash' # NullHash
\* A step in which a data frame of the stream is applied.
FrameStep ==
    /\ eventSource = "open" /\ lastFrame' = "data" /\ lastStatusHash' # NullHash
    /\ UNCHANGED <<controlVars, notificationPermission, settingsVars>>

\* C32: a snapshot gives the same notification, the same stored fingerprint
\* and the same displayed members whether it arrives as the response of a
\* pull or as a data frame of the stream: in every state, what fetchStatus
\* does with a snapshot is what onmessage would have done with it, and the
\* other way round (so equal sequences of snapshots give equal sequences of
\* notifications, fingerprints and displays).
C32_PullAppliesLikeStream ==
    /\ [][PullStep => applySnapshot(delivery'.members)]_vars
    /\ [][FrameStep => applyFetched(delivery'.members)]_vars

\* After the fallback a pull response has been applied and notified, in a
\* session whose stream had delivered a snapshot before.
C32_Witness ==
    /\ ~useSSE /\ ~fresh /\ delivery.first /\ lastFrame = "data"
    /\ notices # <<>> /\ lastStatusHash = calculateStatusHash(delivery.members)

\* C33 as stated: a POST that has written the member's row and its history
\* row to the store and the member's entry to the mirror file leaves that
\* entry with the activity and the state of the row; after a DELETE answered
\* with success the name is in neither the store nor the mirror file.
C33_MirrorFollowsStore ==
    /\ [][(UpdateStep /\ storeUp /\ Len(history') = Len(history) + 1) =>
            \A i \in 1..Len(db'), j \in 1..Len(mirror') :
                (/\ db'[i].name = request'.name /\ db'[i].timestamp = clock
                 /\ mirror'[j].name = request'.name /\ mirror'[j].timestamp = clock)
                => /\ mirror'[j].activity = db'[i].activity
                   /\ mirror'[j].state = db'[i].state]_vars
    /\ [][(DeleteStep /\ response' = "200") =>
            /\ findIndex(db', request'.name) = 0
            /\ findIndex(mirror', request'.name) = 0]_vars

\* C34: the reconnect counter is in 0..10 and is the number of stream errors
\* since the last successful open (since startup before the first); between
\* two successful opens at most 10 EventSource objects are created, the one
\* of init() and at most 9 by the reconnect timeout.
C34_AttemptsCountErrors ==
    /\ reconnectAttempts \in 0..MAX_RECONNECT_ATTEMPTS
    /\ reconnectAttempts = errors
    /\ connects \in 0..MAX_RECONNECT_ATTEMPTS
    /\ connects <= errors + 1

\* Ten connections in a row have failed: the one of init() and nine retries.
C34_Witness ==
    /\ errors = MAX_RECONNECT_ATTEMPTS /\ connects = MAX_RECONNECT_ATTEMPTS
    /\ reconnectAttempts = MAX_RECONNECT_ATTEMPTS /\ eventSource = "closed"

\* C35: while the polling interval timer is set, no EventSource is open or
\* being opened and no reconnect timeout is pending.
C35_PollingExcludesStream ==
    pollingTimer =>
        /\ eventSource \in {"closed", "null"} /\ openSources = 0
        /\ reconnectTimer = 0 /\ pendingTimers = 0

\* Polling after the fallback of a session whose stream had been open and
\* had delivered a snapshot.
C35_Witness ==
    /\ pollingTimer /\ pollingDelay = pollingInterval * 1000 /\ eventSource = "closed"
    /\ lastFrame = "data" /\ errors = MAX_RECONNECT_ATTEMPTS /\ connects < errors

\* C36 as stated: while the last request handled is a DELETE answered with
\* success that left the store without the name, no step other than a POST
\* for that name brings the name back into the store, a restart of the
\* server after a failed mirror write included.
C36_DeletedStaysDeleted ==
    [][(/\ request.op = "DELETE" /\ response = "200"
        /\ findIndex(db, request.name) = 0)
        => \/ findIndex(db', request.name) = 0
           \/ UpdateStep /\ request'.name = request.name]_vars

\* A step in which the first snapshot after a stream error is applied.
FirstAfterError == fresh /\ ~fresh'

Entries(c) == Cardinality({i \in 1..Len(sseClients) : sseClients[i] = c})

\* C38: a connection has one registry entry at most, and exactly one from
\* its registration on while its channel is writable and its close has not
\* been signalled; an entry leaves the registry only in the step that
\* handles the close of its own connection or in a broadcast pass that
\* found its own channel ended or throwing.
C38_LiveSubscriberStaysRegistered ==
    /\ [](\A c \in Conns :
            /\ Entries(c) <= 1
            /\ (phase[c] = "streaming" /\ chan[c] = "ok") => Entries(c) = 1)
    /\ [][\A c \in Conns :
            (InReg(c) /\ ~InReg(c)') =>
                \/ phase[c] = "streaming" /\ phase'[c] = "closed"
                \/ CycleStep /\ chan[c] # "ok"]_vars

\* One connection has closed, a broadcast pass has run, and the other
\* subscriber is still registered and has been written the store's state.
C38_Witness ==
    \E c, d \in Conns :
        /\ phase[c] = "closed" /\ Entries(c) = 0
        /\ phase[d] = "streaming" /\ chan[d] = "ok" /\ Entries(d) = 1
        /\ lastCycle = "store" /\ Len(db) > 0 /\ lastData[d] = getAllMembers(db)

\* C39 as stated: once the browser has applied the store's current snapshot,
\* no response or frame that arrives while the store stays as it is replaces
\* the stored fingerprint or the displayed members (whatever arrives then was
\* generated from that snapshot or from an older one) or raises a
\* notification.
C39_NeverOlderSnapshot ==
    [][(/\ lastStatusHash = calculateStatusHash(getAllMembers(db))
        /\ currentMembers = displayStatus(getAllMembers(db))
        /\ db' = db)
        => /\ UNCHANGED <<lastStatusHash, currentMembers>>
           /\ notices' \in {<<>>, notices}]_vars

====
